---- MODULE Spec2Model ----
(***************************************************************************)
(* A model of amplifier_module_style_extraction: the StyleProfile record   *)
(* with its prompt rendering and serialization (models.py) and the         *)
(* StyleExtractor pipeline (extractor.py).                                 *)
(*                                                                         *)
(* Text is a sequence of tokens.  A token is a piece of a string: a        *)
(* literal of the source, a newline, a quote, or one character of a file   *)
(* or of a field value.  An f-string is the concatenation of its pieces.   *)
(***************************************************************************)
EXTENDS Integers, Sequences, FiniteSets, TLC

VARIABLES
    profile,      \* StyleExtractor.profile, the cached last result
    pc,           \* per task: where its extract_style invocation stands
    samples_dir,  \* per task: the expanded samples directory
    files,        \* per task: the list glob returned
    idx,          \* per task: position of the read loop in files[:max_samples]
    samples,      \* per task: the blocks read so far
    combined,     \* per task: the text handed to _analyze_with_ai
    prompt,       \* per task: the prompt handed to agent.run
    result,       \* per task: the value the invocation returned
    exc,          \* per task: the exception the invocation raised
    log,          \* per task: the external effects of the invocation, in order
    seen,         \* per task: self.profile as it was when the invocation began
    answer,       \* per task: how the awaited agent run ended
    ncalls,       \* number of invocations begun so far
    lastReturned, \* the value returned by the most recent invocation that returned
    rpc,          \* rendering: "off", "built" (a profile exists), "rendered"
    rp,           \* rendering: the profile object to_prompt_text is called on
    rin,          \* rendering: that profile as it was constructed
    rtext,        \* rendering: the text to_prompt_text returned
    sp,           \* serialization: the profile serialized
    sjson,        \* serialization: model_validate_json(model_dump_json(sp))
    sdict,        \* serialization: model_validate(model_dump(sp))
    started,      \* interleaved calls: the tasks in the order their calls began
    resumed,      \* interleaved calls: the tasks in the order their awaits ended
    replies       \* interleaved calls: per task, what its own agent run answered

evars == <<profile, pc, samples_dir, files, idx, samples, combined, prompt,
           result, exc, log, seen, answer, ncalls, lastReturned>>
rvars == <<rpc, rp, rin, rtext>>
svars == <<sp, sjson, sdict>>
cvars == <<started, resumed, replies>>
vars == <<evars, rvars, svars, cvars>>

\* ------------------------------------------------------------------ bounds
MaxFiles == 6      \* most files a directory listing holds
MaxCalls == 2      \* most extract_style invocations in one behaviour
MaxList == 6       \* longest list field of a rendered profile

\* Python's None
None == [none |-> TRUE]

\* The tasks that may call extract_style on the one extractor; in a run of
\* sequential calls a single task makes them all.
Tasks == {1, 2}
Caller == 1

Min(a, b) == IF a < b THEN a ELSE b

\* ------------------------------------------------------------------- text
NL == "\n"
QUOTE == "\""

RECURSIVE Join(_, _)
\* sep.join(parts), parts a sequence of texts
Join(parts, sep) ==
    IF parts = <<>> THEN <<>>
    ELSE IF Len(parts) = 1 THEN parts[1]
    ELSE parts[1] \o sep \o Join(Tail(parts), sep)

\* seq[:n]
Take(seq, n) == SubSeq(seq, 1, Min(n, Len(seq)))

\* [c] * n
Repeat(c, n) == [i \in 1..n |-> c]

\* ----------------------------------------------------------- StyleProfile
\* The declared fields of StyleProfile, in declaration order.
ScalarFields == <<"tone", "vocabulary_level", "sentence_structure",
                  "paragraph_length", "voice">>
\* ListFields, were examples not a declared field of the model
ListFieldsShort == <<"common_phrases", "writing_patterns">>

ListFields == <<"common_phrases", "writing_patterns", "examples">>

StyleProfile(tone, vocabulary_level, sentence_structure, paragraph_length, voice, common_phrases, writing_patterns, examples) ==
    [tone |-> tone, vocabulary_level |-> vocabulary_level,
     sentence_structure |-> sentence_structure,
     paragraph_length |-> paragraph_length, voice |-> voice,
     common_phrases |-> common_phrases, writing_patterns |-> writing_patterns,
     examples |-> examples]

\* ---------------------------------------------------------- the extractor
max_samples == 5
max_chars_per_sample == 3000

\* StyleExtractor._default_profile
default_profile ==
    StyleProfile(<<"conversational">>, <<"moderate">>, <<"varied">>,
                 <<"medium">>, <<"active">>,
                 <<>>,
                 << <<"introduction-body-conclusion">>, <<"problem-solution">> >>,
                 << <<"Clear and direct communication.">>,
                    <<"Focus on practical value.">> >>)

\* What the external agent may answer: any schema-conforming StyleProfile.
AIProfiles ==
    { StyleProfile(<<"formal">>, <<"advanced">>, <<"complex">>, <<"long">>,
                   <<"passive">>, << <<"in practice">> >>,
                   << <<"storytelling">> >>, << <<"It is so.">> >>),
      StyleProfile(<<"technical">>, <<"simple">>, <<"short and direct">>,
                   <<"short">>, <<"mixed">>, <<>>, <<>>, <<>>) }

\* The exceptions the agent's construction and its run raise.
CreateErrors == {"UserError"}
RunErrors == {"ModelHTTPError", "UnexpectedModelBehavior"}

\* Paths are sequences of components.
Home == <<"home", "u">>
Dirs == { <<"~", "writings">>, <<"srv", "posts">> }

\* Path.expanduser: a leading ~ becomes the home directory
expanduser(path) ==
    IF path # <<>> /\ path[1] = "~" THEN Home \o Tail(path) ELSE path

\* str(path), as an f-string embeds it
PathStr(path) == Join([i \in 1..Len(path) |-> <<path[i]>>], <<"/">>)

\* Path.name: the final component
Name(path) == <<path[Len(path)]>>

\* The i-th markdown file that may exist beneath a directory; every second
\* one lies in a subdirectory and is named like the first.
RelPath(i) ==
    IF i = 1 THEN <<"a.md">>
    ELSE IF i % 2 = 0 THEN <<"sub" \o ToString(i), "a.md">>
    ELSE <<"n" \o ToString(i) \o ".md">>

\* The orders in which a directory scan may list n files.
Listings(dir) ==
    { [k \in 1..n |-> dir \o RelPath(k)] : n \in 0..MaxFiles } \cup
    { [k \in 1..n |-> dir \o RelPath(MaxFiles + 1 - k)] : n \in 0..MaxFiles }

\* The decoded text of a file that can be read: two characters, more than
\* max_chars_per_sample characters, or exactly that many.
FileText(path) ==
    LET i == CHOOSE k \in 1..MaxFiles :
                 \E d \in Dirs : path = expanduser(d) \o RelPath(k)
    IN IF i % 3 = 1 THEN <<"h", "i">>
       ELSE IF i % 3 = 2 THEN Repeat("x", max_chars_per_sample) \o <<"y", "z">>
       ELSE Repeat("w", max_chars_per_sample)

\* Sample, were the content not truncated
SampleUntruncated(file, text) == <<"=== ">> \o Name(file) \o <<" ===", NL>> \o text

\* f"=== {file.name} ===\n{content}" with content = read_text(...)[:max_chars_per_sample]
Sample(file, text) ==
    <<"=== ">> \o Name(file) \o <<" ===", NL>> \o Take(text, max_chars_per_sample)

\* files[:max_samples]
Attempted(fs) == Take(fs, max_samples)

\* "\n\n".join(samples)
Combine(ss) == Join(ss, <<NL, NL>>)

\* The prompt _analyze_with_ai builds around the samples.
Prompt(text) ==
    <<"Analyze these writing samples to extract the author's style:", NL, NL>>
    \o text \o
    <<NL, NL, "Extract: ... Return a structured response with these fields.">>

StyleExtractionError(msg) == [type |-> "StyleExtractionError", msg |-> msg]
OtherError(kind) == [type |-> kind, msg |-> <<>>]

\* Store, were the cached profile kept once set
StoreKeepsFirst(old, new) == IF old = None THEN new ELSE old

\* self.profile = profile
Store(old, new) == new

\* NoFilesMessage, were the directory left out of the message
NoFilesMessageBare(dir) == <<"No markdown files found">>

\* line 64: the message of the error raised when the scan finds nothing
NoFilesMessage(dir) == <<"No markdown files found in ">> \o PathStr(dir)

\* NoSamples, were a single sample counted as none
NoSamplesOffByOne(ss) == Len(ss) <= 1

\* line 79: not samples
NoSamples(ss) == ss = <<>>

Event(op, arg) == [op |-> op, arg |-> arg]

\* An invocation is in flight from its first statement to its return or raise.
InFlight(t) == pc[t] \notin {"idle", "returned", "raised"}

EInit ==
    /\ profile = None
    /\ pc = [t \in Tasks |-> "idle"]
    /\ samples_dir = [t \in Tasks |-> <<>>]
    /\ files = [t \in Tasks |-> <<>>]
    /\ idx = [t \in Tasks |-> 0]
    /\ samples = [t \in Tasks |-> <<>>]
    /\ combined = [t \in Tasks |-> <<>>]
    /\ prompt = [t \in Tasks |-> <<>>]
    /\ result = [t \in Tasks |-> None]
    /\ exc = [t \in Tasks |-> None]
    /\ log = [t \in Tasks |-> <<>>]
    /\ seen = [t \in Tasks |-> None]
    /\ answer = [t \in Tasks |-> None]
    /\ ncalls = 0
    /\ lastReturned = None

\* extract_style, lines 58-69: expand the path, scan it, fail when the scan
\* is empty, set up the read loop otherwise
StartCall(t, d) ==
    /\ pc[t] = "idle"
    /\ ncalls < MaxCalls
    /\ LET dir == expanduser(d) IN
       \E fs \in Listings(dir) :
          /\ samples_dir' = [samples_dir EXCEPT ![t] = dir]
          /\ files' = [files EXCEPT ![t] = fs]
          /\ log' = [log EXCEPT ![t] = <<Event("glob", dir)>>]
          /\ IF fs = <<>>
             THEN /\ pc' = [pc EXCEPT ![t] = "raised"]
                  /\ exc' = [exc EXCEPT ![t] = StyleExtractionError(NoFilesMessage(dir))]
                  /\ idx' = idx
             ELSE /\ pc' = [pc EXCEPT ![t] = "reading"]
                  /\ exc' = exc
                  /\ idx' = [idx EXCEPT ![t] = 1]
    /\ seen' = [seen EXCEPT ![t] = profile]
    /\ ncalls' = ncalls + 1
    /\ UNCHANGED <<profile, samples, combined, prompt, result, answer, lastReturned>>

\* a call made while no other invocation of the extractor is in flight
SeqStart(t, d) ==
    /\ \A u \in Tasks \ {t} : ~InFlight(u)
    /\ StartCall(t, d)

\* lines 71-74: one pass of the loop whose read_text succeeds
ReadOk(t) ==
    /\ pc[t] = "reading"
    /\ idx[t] <= Len(Attempted(files[t]))
    /\ LET file == Attempted(files[t])[idx[t]] IN
       /\ samples' = [samples EXCEPT ![t] = Append(@, Sample(file, FileText(file)))]
       /\ log' = [log EXCEPT ![t] = Append(@, Event("read_ok", file))]
    /\ idx' = [idx EXCEPT ![t] = @ + 1]
    /\ UNCHANGED <<profile, pc, samples_dir, files, combined, prompt, result,
                   exc, seen, answer, ncalls, lastReturned>>

\* lines 71-77: one pass of the loop whose read_text raises; the file is skipped
ReadFails(t) ==
    /\ pc[t] = "reading"
    /\ idx[t] <= Len(Attempted(files[t]))
    /\ log' = [log EXCEPT ![t] = Append(@, Event("read_fail", Attempted(files[t])[idx[t]]))]
    /\ idx' = [idx EXCEPT ![t] = @ + 1]
    /\ UNCHANGED <<profile, pc, samples_dir, files, samples, combined, prompt,
                   result, exc, seen, answer, ncalls, lastReturned>>

\* lines 79-84: after the loop, fail when nothing was read, else join the
\* blocks and enter _analyze_with_ai
EndReads(t) ==
    /\ pc[t] = "reading"
    /\ idx[t] > Len(Attempted(files[t]))
    /\ IF NoSamples(samples[t])
       THEN /\ pc' = [pc EXCEPT ![t] = "raised"]
            /\ exc' = [exc EXCEPT ![t] =
                          StyleExtractionError(<<"Could not read any writing samples">>)]
            /\ combined' = combined
            /\ log' = log
       ELSE /\ pc' = [pc EXCEPT ![t] = "analyze"]
            /\ exc' = exc
            /\ combined' = [combined EXCEPT ![t] = Combine(samples[t])]
            /\ log' = [log EXCEPT ![t] = Append(@, Event("analyze", <<>>))]
    /\ UNCHANGED <<profile, samples_dir, files, idx, samples, prompt, result,
                   seen, answer, ncalls, lastReturned>>

\* _analyze_with_ai, lines 103-127: the prompt is built, the agent is
\* constructed and its run is started and awaited
CreateAgent(t) ==
    /\ pc[t] = "analyze"
    /\ prompt' = [prompt EXCEPT ![t] = Prompt(combined[t])]
    /\ log' = [log EXCEPT ![t] = @ \o <<Event("agent", <<>>), Event("run", <<>>)>>]
    /\ pc' = [pc EXCEPT ![t] = "awaiting"]
    /\ UNCHANGED <<profile, samples_dir, files, idx, samples, combined, result,
                   exc, seen, answer, ncalls, lastReturned>>

\* lines 120-124 stand before the try: an exception of the agent's
\* construction leaves _analyze_with_ai and extract_style
CreateAgentRaises(t, e) ==
    /\ pc[t] = "analyze"
    /\ prompt' = [prompt EXCEPT ![t] = Prompt(combined[t])]
    /\ log' = [log EXCEPT ![t] = Append(@, Event("agent", <<>>))]
    /\ pc' = [pc EXCEPT ![t] = "raised"]
    /\ exc' = [exc EXCEPT ![t] = OtherError(e)]
    /\ UNCHANGED <<profile, samples_dir, files, idx, samples, combined, result,
                   seen, answer, ncalls, lastReturned>>

\* extract_style, lines 84-89, resumed with the profile p of the analysis:
\* it is stored and returned
Resume(t, p) ==
    /\ profile' = Store(profile, p)
    /\ result' = [result EXCEPT ![t] = p]
    /\ lastReturned' = p
    /\ pc' = [pc EXCEPT ![t] = "returned"]
    /\ UNCHANGED <<samples_dir, files, idx, samples, combined, prompt, exc,
                   log, seen, ncalls>>

\* lines 127-128: the run answers with a profile, which is returned
RunReturns(t, out) ==
    /\ pc[t] = "awaiting"
    /\ answer' = [answer EXCEPT ![t] = [raised |-> FALSE, error |-> None]]
    /\ Resume(t, out)

\* Fallback, were the default built with the phrase list of another profile
FallbackOther ==
    [default_profile EXCEPT !.common_phrases = << <<"in practice">> >>]

\* What the except clause of lines 129-133 returns
Fallback == default_profile

\* RunRaises, were a failed run tried again
RunRaisesRetries(t, e) ==
    /\ pc[t] = "awaiting"
    /\ log' = [log EXCEPT ![t] = Append(@, Event("run", <<>>))]
    /\ UNCHANGED <<profile, pc, samples_dir, files, idx, samples, combined,
                   prompt, result, exc, seen, answer, ncalls, lastReturned>>

\* lines 129-133: the run raises e; the warning is printed and the default returned
RunRaises(t, e) ==
    /\ pc[t] = "awaiting"
    /\ answer' = [answer EXCEPT ![t] = [raised |-> TRUE, error |-> e]]
    /\ Resume(t, Fallback)

\* The caller has taken the result or the exception; the task may call again.
Finish(t) ==
    /\ pc[t] \in {"returned", "raised"}
    /\ pc' = [pc EXCEPT ![t] = "idle"]
    /\ samples_dir' = [samples_dir EXCEPT ![t] = <<>>]
    /\ files' = [files EXCEPT ![t] = <<>>]
    /\ idx' = [idx EXCEPT ![t] = 0]
    /\ samples' = [samples EXCEPT ![t] = <<>>]
    /\ combined' = [combined EXCEPT ![t] = <<>>]
    /\ prompt' = [prompt EXCEPT ![t] = <<>>]
    /\ result' = [result EXCEPT ![t] = None]
    /\ exc' = [exc EXCEPT ![t] = None]
    /\ log' = [log EXCEPT ![t] = <<>>]
    /\ seen' = [seen EXCEPT ![t] = None]
    /\ answer' = [answer EXCEPT ![t] = None]
    /\ UNCHANGED <<profile, ncalls, lastReturned>>

\* No profile is being rendered, none is being serialized.
RIdle == rpc = "off" /\ rp = None /\ rin = None /\ rtext = <<>>
SIdle == sp = None /\ sjson = None /\ sdict = None

\* The bookkeeping of interleaved calls, before any call.
CInit ==
    /\ started = <<>>
    /\ resumed = <<>>
    /\ replies = [t \in Tasks |-> None]

Init == EInit /\ RIdle /\ SIdle /\ CInit

Next ==
    \/ \E d \in Dirs : SeqStart(Caller, d) /\ UNCHANGED <<rvars, svars, cvars>>
    \/ ReadOk(Caller) /\ UNCHANGED <<rvars, svars, cvars>>
    \/ ReadFails(Caller) /\ UNCHANGED <<rvars, svars, cvars>>
    \/ EndReads(Caller) /\ UNCHANGED <<rvars, svars, cvars>>
    \/ CreateAgent(Caller) /\ UNCHANGED <<rvars, svars, cvars>>
    \/ \E e \in CreateErrors : CreateAgentRaises(Caller, e) /\ UNCHANGED <<rvars, svars, cvars>>
    \/ \E out \in AIProfiles : RunReturns(Caller, out) /\ UNCHANGED <<rvars, svars, cvars>>
    \/ \E e \in RunErrors : RunRaises(Caller, e) /\ UNCHANGED <<rvars, svars, cvars>>
    \/ Finish(Caller) /\ UNCHANGED <<rvars, svars, cvars>>

Spec == Init /\ [][Next]_vars

\* ------------------------------------------------------------- the claims
\* The operations of an invocation's log, in order.
Ops(t) == [i \in 1..Len(log[t]) |-> log[t][i].op]
Count(t, op) == Cardinality({i \in 1..Len(log[t]) : log[t][i].op = op})
IsRead(e) == e.op \in {"read_ok", "read_fail"}
ReadIdx(t) == {i \in 1..Len(log[t]) : IsRead(log[t][i])}

RECURSIVE Select(_, _)
\* the arguments of the events of kinds ops, in order
Select(events, ops) ==
    IF events = <<>> THEN <<>>
    ELSE IF events[1].op \in ops
         THEN <<events[1].arg>> \o Select(Tail(events), ops)
         ELSE Select(Tail(events), ops)

\* the files whose read was attempted, and those whose read succeeded
ReadAttempts(t) == Select(log[t], {"read_ok", "read_fail"})
ReadSuccesses(t) == Select(log[t], {"read_ok"})

\* text has piece as a contiguous part
Contains(text, piece) ==
    \E k \in 0..(Len(text) - Len(piece)) :
        SubSeq(text, k + 1, k + Len(piece)) = piece

\* the first min(n, Len(seq)) elements of seq, element by element
FirstN(seq, n) == [i \in 1..(IF Len(seq) < n THEN Len(seq) ELSE n) |-> seq[i]]

\* The fixed default profile, field by field.
DefaultFields(p) ==
    /\ p.tone = <<"conversational">>
    /\ p.vocabulary_level = <<"moderate">>
    /\ p.sentence_structure = <<"varied">>
    /\ p.paragraph_length = <<"medium">>
    /\ p.voice = <<"active">>
    /\ p.common_phrases = <<>>
    /\ p.writing_patterns =
           << <<"introduction-body-conclusion">>, <<"problem-solution">> >>
    /\ p.examples =
           << <<"Clear and direct communication.">>, <<"Focus on practical value.">> >>

C2_AnalysisNeverRaises ==
    \A t \in Tasks : Count(t, "analyze") > 0 => pc[t] # "raised"

\* C3: when the scan of the expanded directory yields nothing, the invocation
\* has failed with StyleExtractionError whose message names the directory that
\* was scanned, and nothing was read and no agent was built or run.
C3_NoFilesFailsFirst ==
    \A t \in Tasks :
        (pc[t] # "idle" /\ files[t] = <<>>) =>
            /\ pc[t] = "raised"
            /\ exc[t].type = "StyleExtractionError"
            /\ log[t][1].op = "glob"
            /\ Contains(exc[t].msg, PathStr(log[t][1].arg))
            /\ \A d \in Dirs : log[t][1].arg # d => ~Contains(exc[t].msg, PathStr(d))
            /\ Ops(t) = <<"glob">>

\* C3 witness: an empty scan of a directory given with a leading ~
C3_Witness ==
    \E t \in Tasks :
        /\ pc[t] = "raised" /\ files[t] = <<>>
        /\ samples_dir[t][1] = Home[1]

\* C4: with at least one file discovered, once the read loop is over the
\* invocation has failed with "Could not read any writing samples" exactly when
\* no read succeeded; the reads attempted are the first up to 5 files in
\* discovery order; in the failing case no agent is built or run, and in every
\* other case the analysis step has been invoked.
C4_NoSamplesIffNoneRead ==
    \A t \in Tasks :
        (files[t] # <<>> /\ pc[t] \notin {"idle", "reading"}) =>
            LET failed == /\ pc[t] = "raised"
                          /\ exc[t] = StyleExtractionError(
                                 <<"Could not read any writing samples">>)
            IN /\ failed <=> (Count(t, "read_ok") = 0)
               /\ ReadAttempts(t) = FirstN(files[t], 5)
               /\ failed => Count(t, "analyze") + Count(t, "agent") + Count(t, "run") = 0
               /\ ~failed => Count(t, "analyze") = 1

\* C4 witness: more than five files, none of the first five readable
C4_Witness ==
    \E t \in Tasks :
        /\ Len(files[t]) > 5
        /\ pc[t] = "raised"
        /\ Count(t, "read_fail") = 5

RECURSIVE Blocks(_)
\* the expected text for the files read, each block led by a blank line
Blocks(paths) ==
    IF paths = <<>> THEN <<>>
    ELSE <<"\n", "\n", "=== ", paths[1][Len(paths[1])], " ===", "\n">>
         \o FirstN(FileText(paths[1]), 3000) \o Blocks(Tail(paths))

\* C5: the text handed to the analysis step is exactly the blocks
\* "=== <name> ===\n<at most 3000 characters of content>" of the files read
\* successfully among the first 5 discovered, in discovery order, joined by a
\* blank line; after a read that failed the loop goes on to the files left,
\* and no file beyond the fifth is read.
C5_CombinedText ==
    \A t \in Tasks :
        /\ pc[t] = "analyze" =>
              /\ <<"\n", "\n">> \o combined[t] = Blocks(ReadSuccesses(t))
              /\ \A i \in 1..Len(ReadSuccesses(t)) :
                    \E k \in 1..5 : k <= Len(files[t]) /\ files[t][k] = ReadSuccesses(t)[i]
              /\ \A i, j \in 1..Len(ReadSuccesses(t)) :
                    i < j => \E k, l \in 1..5 :
                                /\ k < l /\ l <= Len(files[t])
                                /\ files[t][k] = ReadSuccesses(t)[i]
                                /\ files[t][l] = ReadSuccesses(t)[j]
        /\ \A i \in ReadIdx(t) : \A k \in 6..Len(files[t]) : log[t][i].arg # files[t][k]
        /\ \A i \in ReadIdx(t) :
              log[t][i].op = "read_fail" =>
                  pc[t] = "reading" \/ ReadAttempts(t) = FirstN(files[t], 5)

\* C5 witness: six files, a failed read among the first five, a file longer
\* than the limit read, and the text handed over
C5_Witness ==
    \E t \in Tasks :
        /\ Len(files[t]) > 5
        /\ pc[t] = "analyze"
        /\ Count(t, "read_fail") > 0
        /\ Count(t, "read_ok") > 1
        /\ \E i \in 1..Len(ReadSuccesses(t)) :
              Len(FileText(ReadSuccesses(t)[i])) > max_chars_per_sample

\* C6: an invocation runs the agent at most once, and only after its one scan
\* and all its reads; it runs none when it fails with StyleExtractionError;
\* no scan, read or run happens twice.
C6_OneModelCall ==
    \A t \in Tasks :
        /\ Count(t, "run") <= 1
        /\ Count(t, "glob") <= 1
        /\ \A i, j \in ReadIdx(t) : i # j => log[t][i].arg # log[t][j].arg
        /\ \A i \in 1..Len(log[t]) :
              log[t][i].op = "run" =>
                  /\ \A j \in 1..Len(log[t]) :
                        (log[t][j].op = "glob" \/ IsRead(log[t][j])) => j < i
                  /\ Count(t, "glob") = 1
                  /\ ReadAttempts(t) = FirstN(files[t], 5)
        /\ (pc[t] = "raised" /\ exc[t].type = "StyleExtractionError") =>
              Count(t, "run") = 0

\* C6 witness: an invocation that returned after the agent's run raised
C6_Witness ==
    \E t \in Tasks :
        /\ pc[t] = "returned" /\ answer[t].raised
        /\ Count(t, "run") = 1
        /\ Len(ReadAttempts(t)) = 5

\* C10: in a run of sequential calls, profile is the value returned by the
\* most recent call that returned, and None before any returned; a call that
\* fails with StyleExtractionError leaves it as it was; and a call made with a
\* profile already cached still scans, reads and runs the agent.
C10_ProfileIsLastResult ==
    /\ profile = lastReturned
    /\ \A t \in Tasks :
        /\ pc[t] = "returned" => profile = result[t]
        /\ (pc[t] = "raised" /\ exc[t].type = "StyleExtractionError") =>
              profile = seen[t]
        /\ (pc[t] = "returned" /\ seen[t] # None) =>
              /\ Count(t, "glob") = 1
              /\ ReadAttempts(t) = FirstN(files[t], 5)
              /\ Count(t, "run") = 1

\* C10 witness: a second call that returned a profile other than the cached one
C10_Witness ==
    \E t \in Tasks :
        /\ pc[t] = "returned"
        /\ seen[t] # None
        /\ result[t] # seen[t]

\* ---------------------------------------------------- StyleProfile.to_prompt_text
\* the literal 5 of self.common_phrases[:5] and the literal 3 of self.examples[:3]
max_phrases == 5
max_examples == 3

\* f'"{p}"'
Quoted(p) == <<QUOTE>> \o p \o <<QUOTE>>

\* lines 78-84: the five instruction lines
MandatoryParts(self) ==
    << <<"Write with a ">> \o self.tone \o <<" tone.">>,
       <<"Use ">> \o self.vocabulary_level \o <<" vocabulary level.">>,
       <<"Structure sentences: ">> \o self.sentence_structure \o <<".">>,
       <<"Prefer ">> \o self.paragraph_length \o <<" paragraphs.">>,
       <<"Use ">> \o self.voice \o <<" voice.">> >>

\* PhraseParts, were the phrase list not cut
PhrasePartsUncut(self) ==
    IF self.common_phrases # <<>>
    THEN << <<"Common phrases include: ">>
            \o Join([i \in 1..Len(self.common_phrases) |->
                        Quoted(self.common_phrases[i])], <<", ">>)
            \o <<".">> >>
    ELSE <<>>

\* lines 86-88: the phrases line
PhraseParts(self) ==
    IF self.common_phrases # <<>>
    THEN LET shown == Take(self.common_phrases, max_phrases) IN
         << <<"Common phrases include: ">>
            \o Join([i \in 1..Len(shown) |-> Quoted(shown[i])], <<", ">>)
            \o <<".">> >>
    ELSE <<>>

\* lines 90-92: the patterns line
PatternParts(self) ==
    IF self.writing_patterns # <<>>
    THEN << <<"Follow these patterns: ">>
            \o Join(self.writing_patterns, <<", ">>) \o <<".">> >>
    ELSE <<>>

\* ExampleParts, were the header appended whether or not there are examples
ExamplePartsAlways(self) ==
    LET shown == Take(self.examples, max_examples) IN
    << <<"Example style:">> >>
    \o [i \in 1..Len(shown) |-> <<"  - \"">> \o shown[i] \o <<QUOTE>>]

\* lines 94-97: the examples header and its bullet lines
ExampleParts(self) ==
    IF self.examples # <<>>
    THEN LET shown == Take(self.examples, max_examples) IN
         << <<"Example style:">> >>
         \o [i \in 1..Len(shown) |-> <<"  - \"">> \o shown[i] \o <<QUOTE>>]
    ELSE <<>>

\* StyleProfile.to_prompt_text: the text returned, and self after the call
to_prompt_text(self) ==
    LET parts == MandatoryParts(self) \o PhraseParts(self)
                 \o PatternParts(self) \o ExampleParts(self)
    IN [text |-> Join(parts, <<NL>>), self |-> self]

\* The profiles rendered: two choices of plain scalar fields with lists of
\* every length up to MaxList, and one choice whose values hold a newline,
\* quotes and a comma.
ScalarChoices ==
    { <<"conversational", "moderate", "short and direct", "medium", "active">>,
      <<"formal", "advanced", "complex", "long", "passive">> }

Item(kind, i) == <<kind \o ToString(i - 1), ".">>
Items(kind, n) == [i \in 1..n |-> Item(kind, i)]

RenderInputs ==
    { StyleProfile(<<c[1]>>, <<c[2]>>, <<c[3]>>, <<c[4]>>, <<c[5]>>,
                   Items("phrase", n), Items("pattern", m), Items("Example ", k)) :
        c \in ScalarChoices, n \in 0..MaxList, m \in 0..MaxList, k \in 0..MaxList }
    \cup
    { StyleProfile(<<"dry", NL, "wit">>, <<"a ", QUOTE, "b", QUOTE>>, <<"x, y">>,
                   <<>>, <<"mixed">>,
                   Items("phrase", n), Items("pattern", 1), Items("Example ", k)) :
        n \in 0..MaxList, k \in 0..MaxList }

RInit == rpc = "built" /\ rp \in RenderInputs /\ rin = rp /\ rtext = <<>>

\* a caller renders the profile
Render ==
    /\ rpc = "built"
    /\ LET r == to_prompt_text(rp) IN
       /\ rtext' = r.text
       /\ rp' = r.self
    /\ rpc' = "rendered"
    /\ UNCHANGED rin

RenderInit == EInit /\ RInit /\ SIdle /\ CInit

RenderNext == Render /\ UNCHANGED <<evars, svars, cvars>>

RenderSpec == RenderInit /\ [][RenderNext]_vars

RECURSIVE SplitLines(_)
\* the lines of a text: its pieces between newlines
SplitLines(text) ==
    IF \A i \in 1..Len(text) : text[i] # "\n" THEN <<text>>
    ELSE LET k == CHOOSE i \in 1..Len(text) :
                      text[i] = "\n" /\ \A j \in 1..(i - 1) : text[j] # "\n"
         IN <<SubSeq(text, 1, k - 1)>> \o SplitLines(SubSeq(text, k + 1, Len(text)))

\* no scalar field of p holds a newline
ScalarsOnOneLine(p) ==
    \A v \in {p.tone, p.vocabulary_level, p.sentence_structure,
              p.paragraph_length, p.voice} :
        \A i \in 1..Len(v) : v[i] # "\n"

\* what kind of line of the prompt text a line is, by the literal it begins with
Kind(line) ==
    IF line = <<>> THEN "other"
    ELSE IF line[1] = "Common phrases include: " THEN "phrases"
    ELSE IF line[1] = "Follow these patterns: " THEN "patterns"
    ELSE IF line = <<"Example style:">> THEN "header"
    ELSE IF line[1] = "  - \"" THEN "bullet"
    ELSE "other"

RECURSIVE OfKind(_, _)
\* the lines of one kind, in order
OfKind(lines, kind) ==
    IF lines = <<>> THEN <<>>
    ELSE IF Kind(lines[1]) = kind THEN <<lines[1]>> \o OfKind(Tail(lines), kind)
    ELSE OfKind(Tail(lines), kind)

\* the kinds of the lines after the fifth that a profile calls for, with nb bullets
OptionalKinds(p, nb) ==
    (IF p.common_phrases = <<>> THEN <<>> ELSE <<"phrases">>)
    \o (IF p.writing_patterns = <<>> THEN <<>> ELSE <<"patterns">>)
    \o (IF p.examples = <<>> THEN <<>>
        ELSE <<"header">> \o [i \in 1..nb |-> "bullet"])

\* C7: the text to_prompt_text returns begins with the five instruction
\* lines, in the fixed order, with the field values put in literally and a
\* newline between them; what follows is, in this order, the phrases line, the
\* patterns line and the examples header with its bullets, each there exactly
\* when its list is not empty; and the profile is as it was before the call.
C7_PromptLines ==
    rpc = "rendered" =>
        LET p == rin
            head == <<"Write with a ">> \o p.tone \o <<" tone.", "\n">>
                    \o <<"Use ">> \o p.vocabulary_level \o <<" vocabulary level.", "\n">>
                    \o <<"Structure sentences: ">> \o p.sentence_structure \o <<".", "\n">>
                    \o <<"Prefer ">> \o p.paragraph_length \o <<" paragraphs.", "\n">>
                    \o <<"Use ">> \o p.voice \o <<" voice.">>
            lines == SplitLines(rtext)
            rest == SubSeq(lines, 6, Len(lines))
        IN /\ rp = rin
           /\ Len(rtext) >= Len(head)
           /\ SubSeq(rtext, 1, Len(head)) = head
           /\ Len(rtext) > Len(head) => rtext[Len(head) + 1] = "\n"
           /\ ScalarsOnOneLine(p) =>
                 /\ Len(lines) >= 5
                 /\ lines[1] = <<"Write with a ">> \o p.tone \o <<" tone.">>
                 /\ lines[2] = <<"Use ">> \o p.vocabulary_level \o <<" vocabulary level.">>
                 /\ lines[3] = <<"Structure sentences: ">> \o p.sentence_structure \o <<".">>
                 /\ lines[4] = <<"Prefer ">> \o p.paragraph_length \o <<" paragraphs.">>
                 /\ lines[5] = <<"Use ">> \o p.voice \o <<" voice.">>
                 /\ \E nb \in 1..(Len(p.examples) + 1) :
                       [i \in 1..Len(rest) |-> Kind(rest[i])] = OptionalKinds(p, nb)

\* C7 witness: a rendered profile with no phrases, with patterns and examples
C7_Witness ==
    /\ rpc = "rendered"
    /\ ScalarsOnOneLine(rin)
    /\ rin.common_phrases = <<>>
    /\ rin.writing_patterns # <<>>
    /\ rin.examples # <<>>
    /\ Len(SplitLines(rtext)) = 5 + 1 + 1 + Len(rin.examples)

RECURSIVE QuotedList(_, _, _)
\* items i..k of seq, each between quotes, a comma and a blank before all but the first
QuotedList(seq, i, k) ==
    IF i > k THEN <<>>
    ELSE (IF i > 1 THEN <<", ">> ELSE <<>>) \o <<"\"">> \o seq[i] \o <<"\"">>
         \o QuotedList(seq, i + 1, k)

RECURSIVE PlainList(_, _)
\* items i.. of seq, a comma and a blank before all but the first
PlainList(seq, i) ==
    IF i > Len(seq) THEN <<>>
    ELSE (IF i > 1 THEN <<", ">> ELSE <<>>) \o seq[i] \o PlainList(seq, i + 1)

\* C8: the phrases line lists exactly the first min(5, n) phrases, quoted and
\* comma-joined in order; there is one quoted bullet line for each of the first
\* min(3, m) examples, in order, and no other; no phrase from the sixth on and
\* no example from the fourth on is in the text; the patterns line holds all
\* the patterns, comma-joined.
C8_ListLimits ==
    rpc = "rendered" =>
        LET p == rin
            lines == SplitLines(rtext)
            n == Len(p.common_phrases)
            m == Len(p.examples)
            bullets == OfKind(lines, "bullet")
        IN /\ OfKind(lines, "phrases") =
                 IF n = 0 THEN <<>>
                 ELSE << <<"Common phrases include: ">>
                         \o QuotedList(p.common_phrases, 1, IF n < 5 THEN n ELSE 5)
                         \o <<".">> >>
           /\ \A i \in 6..n : ~Contains(rtext, p.common_phrases[i])
           /\ Len(bullets) = (IF m < 3 THEN m ELSE 3)
           /\ \A i \in 1..Len(bullets) :
                 bullets[i] = <<"  - \"">> \o p.examples[i] \o <<"\"">>
           /\ \A i \in 4..m : ~Contains(rtext, p.examples[i])
           /\ OfKind(lines, "patterns") =
                 IF p.writing_patterns = <<>> THEN <<>>
                 ELSE << <<"Follow these patterns: ">>
                         \o PlainList(p.writing_patterns, 1) \o <<".">> >>
           /\ \A i \in 1..Len(p.writing_patterns) :
                 Contains(rtext, p.writing_patterns[i])

\* C8 witness: a rendered profile with more than five phrases, more than five
\* patterns and more than three examples
C8_Witness ==
    /\ rpc = "rendered"
    /\ Len(rin.common_phrases) > 5
    /\ Len(rin.writing_patterns) > 5
    /\ Len(rin.examples) > 3
    /\ Contains(rtext, rin.common_phrases[5])
    /\ Contains(rtext, rin.examples[3])

\* ------------------------------------------------ StyleProfile serialization
\* The inherited dump and validation of the model, over the fields the class
\* declares: plain str and list[str] fields, no alias, none excluded.
BACKSLASH == "\\"

FieldOrder == ScalarFields \o ListFields
FieldNames == {FieldOrder[i] : i \in 1..Len(FieldOrder)}
IsScalar(f) == \E i \in 1..Len(ScalarFields) : ScalarFields[i] = f

ValidationError == [error |-> "ValidationError"]

\* model_dump: the mapping from each declared field's name to its value
model_dump(p) == [f \in FieldNames |-> p[f]]

\* model_validate: every required field must be there; a list field left out
\* takes its default, the empty list; keys that are no fields are ignored
model_validate(m) ==
    IF \E f \in FieldNames : IsScalar(f) /\ f \notin DOMAIN m
    THEN ValidationError
    ELSE [f \in FieldNames |-> IF f \in DOMAIN m THEN m[f] ELSE <<>>]

RECURSIVE Escape(_)
\* the characters of a JSON string: quote, backslash and newline escaped
Escape(text) ==
    IF text = <<>> THEN <<>>
    ELSE (IF text[1] = QUOTE THEN <<BACKSLASH, QUOTE>>
          ELSE IF text[1] = BACKSLASH THEN <<BACKSLASH, BACKSLASH>>
          ELSE IF text[1] = NL THEN <<BACKSLASH, "n">>
          ELSE <<text[1]>>) \o Escape(Tail(text))

JsonString(text) == <<QUOTE>> \o Escape(text) \o <<QUOTE>>

JsonList(items) ==
    <<"[">> \o Join([i \in 1..Len(items) |-> JsonString(items[i])], <<",">>) \o <<"]">>

\* model_dump_json: the object of the declared fields, in declaration order
model_dump_json(p) ==
    <<"{">>
    \o Join([i \in 1..Len(FieldOrder) |->
                JsonString(<<FieldOrder[i]>>) \o <<":">>
                \o (IF IsScalar(FieldOrder[i]) THEN JsonString(p[FieldOrder[i]])
                    ELSE JsonList(p[FieldOrder[i]]))], <<",">>)
    \o <<"}">>

RECURSIVE ScanString(_, _, _)
\* the string whose characters begin at position i, up to its closing quote
ScanString(text, i, acc) ==
    IF text[i] = QUOTE THEN [val |-> acc, next |-> i + 1]
    ELSE IF text[i] = BACKSLASH
         THEN ScanString(text, i + 2,
                         Append(acc, IF text[i + 1] = "n" THEN NL ELSE text[i + 1]))
         ELSE ScanString(text, i + 1, Append(acc, text[i]))

\* the string whose opening quote is at position i
ParseString(text, i) == ScanString(text, i + 1, <<>>)

RECURSIVE ParseItems(_, _, _)
\* the strings of an array from position i to its closing bracket
ParseItems(text, i, acc) ==
    LET item == ParseString(text, i) IN
    IF text[item.next] = ","
    THEN ParseItems(text, item.next + 1, Append(acc, item.val))
    ELSE [val |-> Append(acc, item.val), next |-> item.next + 1]

\* the value at position i: an array of strings or a string
ParseValue(text, i) ==
    IF text[i] = "["
    THEN IF text[i + 1] = "]" THEN [val |-> <<>>, next |-> i + 2]
         ELSE ParseItems(text, i + 1, <<>>)
    ELSE ParseString(text, i)

RECURSIVE ParseMembers(_, _, _)
\* the members of an object from position i to its closing brace
ParseMembers(text, i, acc) ==
    LET key == ParseString(text, i)
        value == ParseValue(text, key.next + 1)
        more == (key.val[1] :> value.val) @@ acc
    IN IF text[value.next] = "," THEN ParseMembers(text, value.next + 1, more)
       ELSE more

\* the mapping a JSON object text stands for
ParseObject(text) ==
    IF text[2] = "}" THEN <<>> ELSE ParseMembers(text, 2, <<>>)

\* model_validate_json
model_validate_json(text) == model_validate(ParseObject(text))

\* The profiles serialized: plain values, values holding quotes, backslashes,
\* newlines, commas and brackets, and empty strings; lists of every length up
\* to MaxList.
SerialScalars ==
    { << <<"formal">>, <<"advanced">>, <<"complex">>, <<"long">>, <<"passive">> >>,
      << <<"a", QUOTE, "b">>, <<BACKSLASH, "n">>, <<"x", NL, "y">>,
         <<"[", ",", "]">>, <<BACKSLASH, QUOTE, "}">> >>,
      << <<>>, <<"{">>, <<":">>, <<QUOTE>>, <<BACKSLASH>> >> }

SerialItem(i) ==
    IF i % 3 = 1 THEN <<"test phrase">>
    ELSE IF i % 3 = 2 THEN <<QUOTE, ",", QUOTE, "]">>
    ELSE <<>>
SerialItems(n) == [i \in 1..n |-> SerialItem(i)]

SerialInputs ==
    { StyleProfile(c[1], c[2], c[3], c[4], c[5],
                   SerialItems(n), SerialItems(Min(m, 1)), SerialItems(m)) :
        c \in SerialScalars, n \in 0..MaxList, m \in 0..MaxList }

SInit == sp \in SerialInputs /\ sjson = None /\ sdict = None

\* loaded = StyleProfile.model_validate_json(profile.model_dump_json())
RoundTripJson ==
    /\ sp # None /\ sjson = None
    /\ sjson' = model_validate_json(model_dump_json(sp))
    /\ UNCHANGED <<sp, sdict>>

\* loaded = StyleProfile.model_validate(profile.model_dump())
RoundTripDict ==
    /\ sp # None /\ sdict = None
    /\ sdict' = model_validate(model_dump(sp))
    /\ UNCHANGED <<sp, sjson>>

SerialInit == EInit /\ RIdle /\ SInit /\ CInit

SerialNext ==
    \/ RoundTripJson /\ UNCHANGED <<evars, rvars, cvars>>
    \/ RoundTripDict /\ UNCHANGED <<evars, rvars, cvars>>

SerialSpec == SerialInit /\ [][SerialNext]_vars

\* the eight fields of two profiles agree, list order included
SameFields(a, b) ==
    /\ DOMAIN a = DOMAIN b
    /\ a.tone = b.tone
    /\ a.vocabulary_level = b.vocabulary_level
    /\ a.sentence_structure = b.sentence_structure
    /\ a.paragraph_length = b.paragraph_length
    /\ a.voice = b.voice
    /\ Len(a.common_phrases) = Len(b.common_phrases)
    /\ \A i \in 1..Len(a.common_phrases) : a.common_phrases[i] = b.common_phrases[i]
    /\ Len(a.writing_patterns) = Len(b.writing_patterns)
    /\ \A i \in 1..Len(a.writing_patterns) : a.writing_patterns[i] = b.writing_patterns[i]
    /\ Len(a.examples) = Len(b.examples)
    /\ \A i \in 1..Len(a.examples) : a.examples[i] = b.examples[i]

MaxConcFiles == 1   \* most files a directory listing holds under interleaving

\* The event loop runs one coroutine at a time and switches only at an await:
\* task t may take a step when no other task is between its first statement
\* and its await of agent.run.
Turn(t) == \A u \in Tasks \ {t} : pc[u] \notin {"reading", "analyze"}

\* a task calls extract_style, once, while the other's call may be suspended
ConcStart(t, d) ==
    /\ Turn(t)
    /\ \A i \in 1..Len(started) : started[i] # t
    /\ StartCall(t, d)
    /\ Len(files'[t]) <= MaxConcFiles
    /\ started' = Append(started, t)
    /\ UNCHANGED <<resumed, replies>>

\* the steps of a call up to its await, which no other task interleaves
ConcSync(t) ==
    /\ Turn(t)
    /\ \/ ReadOk(t)
       \/ ReadFails(t)
       \/ EndReads(t)
       \/ CreateAgent(t)
       \/ \E e \in CreateErrors : CreateAgentRaises(t, e)
    /\ UNCHANGED cvars

\* the awaited run of task t answers; t resumes, stores and returns
ConcRunReturns(t, out) ==
    /\ Turn(t)
    /\ RunReturns(t, out)
    /\ resumed' = Append(resumed, t)
    /\ replies' = [replies EXCEPT ![t] = out]
    /\ UNCHANGED started

\* the awaited run of task t raises; t resumes with the default
ConcRunRaises(t, e) ==
    /\ Turn(t)
    /\ RunRaises(t, e)
    /\ resumed' = Append(resumed, t)
    /\ UNCHANGED <<started, replies>>

ConcNext ==
    \/ \E t \in Tasks, d \in Dirs : ConcStart(t, d) /\ UNCHANGED <<rvars, svars>>
    \/ \E t \in Tasks : ConcSync(t) /\ UNCHANGED <<rvars, svars>>
    \/ \E t \in Tasks, out \in AIProfiles : ConcRunReturns(t, out) /\ UNCHANGED <<rvars, svars>>
    \/ \E t \in Tasks, e \in RunErrors : ConcRunRaises(t, e) /\ UNCHANGED <<rvars, svars>>

ConcSpec == Init /\ [][ConcNext]_vars

\* every task has called and its call has returned or raised
AllFinished ==
    /\ Len(started) = Cardinality(Tasks)
    /\ \A t \in Tasks : pc[t] \in {"returned", "raised"}

\* the block "=== <name> ===\n<content cut to 3000>" of one file
OwnBlock(path) ==
    LET text == FileText(path) IN
    <<"=== ", path[Len(path)], " ===", "\n">>
    \o SubSeq(text, 1, IF Len(text) < 3000 THEN Len(text) ELSE 3000)

RECURSIVE OwnBlocks(_)
\* the blocks of the files paths, a blank line before each
OwnBlocks(paths) ==
    IF paths = <<>> THEN <<>>
    ELSE <<"\n", "\n">> \o OwnBlock(paths[1]) \o OwnBlocks(Tail(paths))

\* the call of task t has worked on its own input: the files it tried to read
\* are the first of its own listing, in its own directory; the text it handed
\* to the analysis is the blocks of the files it read; and that text stands in
\* its prompt, after the heading
OwnSamples(t) ==
    /\ \A i \in 1..Len(ReadAttempts(t)) :
          /\ i <= Len(files[t])
          /\ ReadAttempts(t)[i] = files[t][i]
          /\ SubSeq(files[t][i], 1, Len(samples_dir[t])) = samples_dir[t]
    /\ <<"\n", "\n">> \o combined[t] = OwnBlocks(ReadSuccesses(t))
    /\ Len(prompt[t]) >= 3 + Len(combined[t])
    /\ SubSeq(prompt[t], 4, 3 + Len(combined[t])) = combined[t]

\* C11: under every interleaving of two calls on one extractor, a call that
\* returns returns the profile of its own analysis of its own samples: what it
\* returns is the answer of its own agent run (the default when that run
\* raised), and the text it analysed is the blocks of the files it read itself
\* from its own directory; and once both calls have finished, profile is the
\* result of the call that resumed from its model call last.
C11_OwnResultLastWriteWins ==
    /\ \A t \in Tasks :
          pc[t] = "returned" =>
              /\ answer[t].raised => DefaultFields(result[t])
              /\ ~answer[t].raised => result[t] = replies[t]
              /\ OwnSamples(t)
    /\ (AllFinished /\ resumed # <<>>) =>
          profile = result[resumed[Len(resumed)]]
    /\ (AllFinished /\ resumed = <<>>) => profile = None

\* C11 witness: both calls returned; the call that began last resumed first,
\* so profile is the result of the call that began first, which differs from
\* the other's, and the two calls read different directories
C11_Witness ==
    /\ AllFinished
    /\ Len(resumed) = 2
    /\ resumed[1] = started[2]
    /\ resumed[2] = started[1]
    /\ profile = result[started[1]]
    /\ result[started[1]] # result[started[2]]
    /\ samples_dir[1] # samples_dir[2]
    /\ combined[1] # combined[2]

====
